---------------------------- MODULE Spec2Model ----------------------------
(***************************************************************************)
(* A model of mandelbrust: the coordinate mapping, the escape-time         *)
(* iterator MandelIter, the parallel rasterizer and the orbit tracer of    *)
(* MandelPlane::draw (src/src/main.rs, src/src/utils.rs,                   *)
(* src/benches/pixel_rendering.rs).                                        *)
(*                                                                         *)
(* f32 values are modelled bit-exactly (IEEE-754 binary32, round to        *)
(* nearest, ties to even): a value is a record                             *)
(*     [k |-> "fin" | "inf" | "nan", s |-> sign, m |-> significand,        *)
(*      e |-> exponent]           with value (-1)^s * m * 2^e,             *)
(* normal numbers having 2^23 <= m < 2^24 and -149 <= e <= 104,            *)
(* subnormals m < 2^23 and e = -149, zero m = 0 and e = -149.              *)
(*                                                                         *)
(* usize values are 64 bits wide.  The values the program computes are     *)
(* either small or sit just below 2^64 after a wrapped subtraction; a      *)
(* usize v is written v when v < 2^31 and v - 2^64 (a negative number)     *)
(* when v >= 2^64 - 2^31.                                                  *)
(***************************************************************************)
EXTENDS Integers, Sequences, FiniteSets, TLC

---------------------------------------------------------------------------
(* Bounds of the model.  The source's frame is W = 3 * 350, H = 2 * 350.   *)

\* Width of the frame (utils.rs:21 sets 1050).
W == 3

\* Height of the frame (utils.rs:24 sets 700).
H == 2

\* Calls of next() made on one iterator by the iterator harness.
MaxCalls == 6

---------------------------------------------------------------------------
(* IEEE-754 binary32 arithmetic.                                           *)

Two23 == 2^23

Two24 == 2^24

EMin == 0 - 149

EMax == 127 - 23

Max(a, b) == IF a >= b THEN a ELSE b

\* The element of a singleton.  {e(v) : v \in {x}} names the value of x
\* once, as a let does, and The picks the value of e out of it.
The(S) == CHOOSE v \in S : TRUE

Min(a, b) == IF a <= b THEN a ELSE b

RECURSIVE BitLen(_)
\* Number of significant bits of n >= 0.
BitLen(n) == IF n = 0 THEN 0 ELSE 1 + BitLen(n \div 2)

Fin(s, m, e) == [k |-> "fin", s |-> s, m |-> m, e |-> e]

FZero(s) == Fin(s, 0, EMin)

FInf(s) == [k |-> "inf", s |-> s, m |-> 0, e |-> 0]

FNaN == [k |-> "nan", s |-> 0, m |-> 0, e |-> 0]

IsZero(a) == a.k = "fin" /\ a.m = 0

Xor(s, t) == (s + t) % 2

\* The f32 nearest to (-1)^s * (M + f) * 2^e, where 0 <= M < 2^31 and
\* 0 < f < 1 when sticky = 1, f = 0 when sticky = 0; ties to even.
\* When sticky = 1, M carries at least two bits below the result's last.
RoundF32(s, M, e, sticky) ==
    LET nb == BitLen(M)
        sh == Max(nb - 24, EMin - e)
    IN  IF sh <= 0
        THEN LET l == Min(24 - nb, e - EMin)
                 m == M * 2^l
             IN  IF M = 0 THEN FZero(s)
                 ELSE IF e - l > EMax THEN FInf(s)
                 ELSE Fin(s, m, e - l)
        ELSE IF sh >= 31 THEN FZero(s)
        ELSE LET q    == M \div 2^sh
                 r    == M % 2^sh
                 half == 2^(sh - 1)
                 up   == r > half \/ (r = half /\ (sticky = 1 \/ q % 2 = 1))
                 m0   == IF up THEN q + 1 ELSE q
                 m1   == IF m0 = Two24 THEN Two23 ELSE m0
                 e1   == IF m0 = Two24 THEN e + sh + 1 ELSE e + sh
             IN  IF m1 = 0 THEN FZero(s)
                 ELSE IF e1 > EMax THEN FInf(s)
                 ELSE Fin(s, m1, e1)

\* A finite non-zero value with its significand brought to 24 bits (the
\* exponent of a subnormal drops below EMin).
Norm(a) ==
    LET l == 24 - BitLen(a.m)
    IN  [m |-> a.m * 2^l, e |-> a.e - l]

FNeg(a) == IF a.k = "nan" THEN a ELSE [a EXCEPT !.s = 1 - a.s]

\* a * b
FMul(a, b) ==
    IF a.k = "nan" \/ b.k = "nan" THEN FNaN
    ELSE IF (a.k = "inf" /\ IsZero(b)) \/ (IsZero(a) /\ b.k = "inf") THEN FNaN
    ELSE IF a.k = "inf" \/ b.k = "inf" THEN FInf(Xor(a.s, b.s))
    ELSE IF IsZero(a) \/ IsZero(b) THEN FZero(Xor(a.s, b.s))
    ELSE LET x   == Norm(a)
             y   == Norm(b)
             a1  == x.m \div 4096
             a0  == x.m % 4096
             b1  == y.m \div 4096
             b0  == y.m % 4096
             mid == a1 * b0 + a0 * b1
             low == (mid % 4096) * 4096 + a0 * b0
             L   == low % Two24
             Hi  == a1 * b1 + mid \div 4096 + low \div Two24
             \* x.m * y.m = Hi * 2^24 + L
             M   == Hi * 32 + L \div 2^19
             st  == IF L % 2^19 = 0 THEN 0 ELSE 1
         IN  RoundF32(Xor(a.s, b.s), M, x.e + y.e + 19, st)

\* |a| >= |b| for finite a, b.
MagGeq(a, b) == a.e > b.e \/ (a.e = b.e /\ a.m >= b.m)

\* a + b
FAdd(a, b) ==
    IF a.k = "nan" \/ b.k = "nan" THEN FNaN
    ELSE IF a.k = "inf" /\ b.k = "inf"
         THEN (IF a.s = b.s THEN a ELSE FNaN)
    ELSE IF a.k = "inf" THEN a
    ELSE IF b.k = "inf" THEN b
    ELSE IF IsZero(a) /\ IsZero(b)
         THEN (IF a.s = b.s THEN a ELSE FZero(0))
    ELSE IF IsZero(a) THEN b
    ELSE IF IsZero(b) THEN a
    ELSE LET x  == IF MagGeq(a, b) THEN a ELSE b
             y  == IF MagGeq(a, b) THEN b ELSE a
             d  == x.e - y.e
             M1 == x.m * 8
             M2 == IF d > 27 THEN 0 ELSE (y.m * 8) \div 2^d
             st == IF d > 27 THEN 1
                   ELSE IF (y.m * 8) % 2^d = 0 THEN 0 ELSE 1
             M  == IF x.s = y.s THEN M1 + M2 ELSE M1 - M2 - st
         IN  IF M = 0 /\ st = 0 THEN FZero(0)
             ELSE RoundF32(x.s, M, x.e - 3, st)

\* a - b
FSub(a, b) == FAdd(a, FNeg(b))

RECURSIVE LongDiv(_, _, _, _)
\* n more quotient bits of r / d after the quotient bits q.
LongDiv(q, r, d, n) ==
    IF n = 0 THEN [q |-> q, r |-> r]
    ELSE IF 2 * r >= d THEN LongDiv(2 * q + 1, 2 * r - d, d, n - 1)
    ELSE LongDiv(2 * q, 2 * r, d, n - 1)

\* a / b
FDiv(a, b) ==
    IF a.k = "nan" \/ b.k = "nan" THEN FNaN
    ELSE IF (a.k = "inf" /\ b.k = "inf") \/ (IsZero(a) /\ IsZero(b)) THEN FNaN
    ELSE IF a.k = "inf" \/ IsZero(b) THEN FInf(Xor(a.s, b.s))
    ELSE IF b.k = "inf" \/ IsZero(a) THEN FZero(Xor(a.s, b.s))
    ELSE LET x  == Norm(a)
             y  == Norm(b)
             qr == LongDiv(x.m \div y.m, x.m % y.m, y.m, 26)
         IN  RoundF32(Xor(a.s, b.s), qr.q, x.e - y.e - 26,
                      IF qr.r = 0 THEN 0 ELSE 1)

\* a < b
FLt(a, b) ==
    IF a.k = "nan" \/ b.k = "nan" THEN FALSE
    ELSE IF IsZero(a) /\ IsZero(b) THEN FALSE
    ELSE IF a.s # b.s THEN a.s = 1
    ELSE LET ea == IF a.k = "inf" THEN EMax + 1 ELSE a.e
             eb == IF b.k = "inf" THEN EMax + 1 ELSE b.e
             lt == ea < eb \/ (ea = eb /\ a.m < b.m)
             gt == ea > eb \/ (ea = eb /\ a.m > b.m)
         IN  IF a.s = 0 THEN lt ELSE gt

\* a > b
FGt(a, b) == FLt(b, a)

\* a == b (PartialEq of f32)
FEq(a, b) ==
    /\ a.k # "nan"
    /\ b.k # "nan"
    /\ (a = b \/ (IsZero(a) /\ IsZero(b)))

\* n as f32, for a usize n.
UsizeAsF32(n) ==
    IF n < 0 THEN Fin(0, Two23, 41)       \* within 2^31 of 2^64: rounds to 2^64
    ELSE RoundF32(0, n, 0, 0)

\* a as usize: truncation toward zero, saturating, NaN to 0.  Defined for
\* the values below 2^31 and from 2^64 on.
F32AsUsize(a) ==
    CASE a.k = "nan" -> 0
      [] a.k = "inf" -> IF a.s = 1 THEN 0 ELSE 0 - 1
      [] a.k = "fin" /\ (a.s = 1 \/ a.m = 0) -> 0
      [] a.k = "fin" /\ a.s = 0 /\ a.m > 0 /\ a.e < 0 ->
            IF a.e <= 0 - 31 THEN 0 ELSE a.m \div 2^(0 - a.e)
      [] a.k = "fin" /\ a.s = 0 /\ a.m > 0 /\ a.e >= 0
           /\ BitLen(a.m) + a.e <= 31 -> a.m * 2^a.e
      [] a.k = "fin" /\ a.s = 0 /\ a.m > 0 /\ BitLen(a.m) + a.e > 64 -> 0 - 1

\* The f32 of a small integer literal.
F(n) == IF n < 0 THEN FNeg(UsizeAsF32(0 - n)) ELSE UsizeAsF32(n)

---------------------------------------------------------------------------
(* utils.rs: constants.                                                    *)

\* const X_RANGE: (f32, f32) = (-2.0, 1.0)
X_RANGE == <<F(0 - 2), F(1)>>

\* const Y_RANGE: (f32, f32) = (-1.0, 1.0)
Y_RANGE == <<F(0 - 1), F(1)>>

\* const X_DIFF: f32 = X_RANGE.1 - X_RANGE.0
X_DIFF == FSub(X_RANGE[2], X_RANGE[1])

\* const Y_DIFF: f32 = Y_RANGE.1 - Y_RANGE.0
Y_DIFF == FSub(Y_RANGE[2], Y_RANGE[1])

\* pub const ESCAPE_POINT: usize = 128
ESCAPE_POINT == 128

\* pub const CUSTOM_EPSILON: f32 = 0.065, the f32 nearest to 0.065:
\* 8724152 * 2^-27 = 0.06499999761581421
CUSTOM_EPSILON == Fin(0, 8724152, 0 - 27)

\* pub const COLOR_MAP: [[u8; 4]; 16]
COLOR_MAP ==
    << << 66,  30,  15, 255>>, << 25,   7,  26, 255>>,
       <<  9,   1,  47, 255>>, <<  4,   4,  73, 255>>,
       <<  0,   7, 100, 255>>, << 12,  44, 138, 255>>,
       << 24,  82, 177, 255>>, << 57, 125, 209, 255>>,
       <<134, 181, 229, 255>>, <<211, 236, 248, 255>>,
       <<241, 233, 191, 255>>, <<248, 201,  95, 255>>,
       <<255, 170,   0, 255>>, <<204, 128,   0, 255>>,
       <<153,  87,   0, 255>>, <<106,  52,   3, 255>> >>

\* pub const CURSOR_ZERO: Cursor = Cursor { coordinates: (0, 0) }
CURSOR_ZERO == <<0, 0>>

\* pub const MANDELPOINT_ZERO: MandelPoint
MANDELPOINT_ZERO == <<F(0), F(0)>>

---------------------------------------------------------------------------
(* usize arithmetic.  A subtraction that underflows panics when the build  *)
(* checks overflow (debug) and wraps modulo 2^64 when it does not          *)
(* (release).                                                              *)

Ok(v) == [ok |-> TRUE, v |-> v]

Panic == [ok |-> FALSE, v |-> 0]

\* a - b on usize, for a, b < 2^31.
UsizeSub(a, b, checks) ==
    IF a >= b THEN Ok(a - b)
    ELSE IF checks THEN Panic
    ELSE Ok(a - b)            \* 2^64 + (a - b), written a - b

---------------------------------------------------------------------------
(* utils.rs: Plottable::is_distance_less_than, as impl_2d_entity! expands  *)
(* it for (usize, usize) (Cursor, Point) and for (f32, f32) (MandelPoint).*)

\* x_diff * x_diff + y_diff * y_diff < distance * distance
SumSquaresLess(x_diff, y_diff, distance) ==
    FLt(FAdd(FMul(x_diff, x_diff), FMul(y_diff, y_diff)),
        FMul(distance, distance))

is_distance_less_than_usize(self, other, distance, checks) ==
    LET xd == UsizeSub(self[1], other[1], checks)
        yd == UsizeSub(self[2], other[2], checks)
    IN  IF ~xd.ok \/ ~yd.ok THEN Panic
        ELSE Ok(SumSquaresLess(UsizeAsF32(xd.v), UsizeAsF32(yd.v), distance))

is_distance_less_than_f32(self, other, distance) ==
    SumSquaresLess(FSub(self[1], other[1]), FSub(self[2], other[2]), distance)

---------------------------------------------------------------------------
(* utils.rs: conversions between Point and MandelPoint.                   *)

\* The conversion without the shift by the lower ends of the ranges.
PointToMandelPoint_unshifted(point) ==
    << FDiv(FMul(X_DIFF, UsizeAsF32(point[1])), UsizeAsF32(W)),
       FDiv(FMul(Y_DIFF, UsizeAsF32(point[2])), UsizeAsF32(H)) >>

\* impl From<Point> for MandelPoint
PointToMandelPoint(point) ==
    << FAdd(FDiv(FMul(X_DIFF, UsizeAsF32(point[1])), UsizeAsF32(W)), X_RANGE[1]),
       FAdd(FDiv(FMul(Y_DIFF, UsizeAsF32(point[2])), UsizeAsF32(H)), Y_RANGE[1]) >>

\* impl From<MandelPoint> for Point
MandelPointToPoint(mandelpoint) ==
    << F32AsUsize(FDiv(FMul(UsizeAsF32(W), FSub(mandelpoint[1], X_RANGE[1])), X_DIFF)),
       F32AsUsize(FDiv(FMul(UsizeAsF32(H), FSub(mandelpoint[2], Y_RANGE[1])), Y_DIFF)) >>

---------------------------------------------------------------------------
(* utils.rs: MandelIter.  Complex<f32> is num::Complex: a record of re    *)
(* and im, multiplied and added componentwise in f32.                      *)

Complex(re, im) == [re |-> re, im |-> im]

\* CMul with the sign of im*im' wrong.
CMul_plus(a, b) ==
    Complex(FAdd(FMul(a.re, b.re), FMul(a.im, b.im)),
            FAdd(FMul(a.re, b.im), FMul(a.im, b.re)))

\* self * other: (re*re' - im*im', re*im' + im*re')
CMul(a, b) ==
    Complex(FSub(FMul(a.re, b.re), FMul(a.im, b.im)),
            FAdd(FMul(a.re, b.im), FMul(a.im, b.re)))

CAdd(a, b) == Complex(FAdd(a.re, b.re), FAdd(a.im, b.im))

None == <<>>

Some(v) == <<v>>

\* MandelIter::new
MandelIterNew(mandel_c) ==
    [curr |-> Complex(F(0), F(0)), c |-> Complex(mandel_c[1], mandel_c[2])]

\* The escape test with 4.0 squared once more.
Escaped_radius4(it) ==
    FGt(FAdd(FMul(it.curr.re, it.curr.re), FMul(it.curr.im, it.curr.im)), F(16))

\* self.curr.re * self.curr.re + self.curr.im * self.curr.im > 4.0
Escaped(it) ==
    FGt(FAdd(FMul(it.curr.re, it.curr.re), FMul(it.curr.im, it.curr.im)), F(4))

\* next() starting the orbit over when it has escaped.
MandelIterNext_restart(it) ==
    IF Escaped(it)
    THEN [it |-> [it EXCEPT !.curr = Complex(F(0), F(0))], ret |-> None]
    ELSE The({[it |-> [it EXCEPT !.curr = curr], ret |-> Some(<<curr.re, curr.im>>)] :
                 curr \in {CAdd(CMul(it.curr, it.curr), it.c)}})

\* Iterator::next for MandelIter: the iterator after the call and the
\* value returned.
MandelIterNext(it) ==
    IF Escaped(it)
    THEN [it |-> it, ret |-> None]
    ELSE The({[it |-> [it EXCEPT !.curr = curr], ret |-> Some(<<curr.re, curr.im>>)] :
                 curr \in {CAdd(CMul(it.curr, it.curr), it.c)}})

---------------------------------------------------------------------------
(* main.rs: the per-pixel work of the rasterizer in MandelPlane::draw     *)
(* (and of pixel_rendering in benches/pixel_rendering.rs).                 *)

Pixels == (0 .. W - 1) \X (0 .. H - 1)

\* One pull of iter.enumerate().take_while(|(idx, _)| *idx <= ESCAPE_POINT):
\* take_while asks the iterator for its next element and stops at None or
\* at the first element whose index fails the predicate.  idx is the index
\* of the next element, which is also the number of elements that passed;
\* emitted is the number of values the iterator was made to emit.
TakeWhilePull(st) ==
    The({ IF r.ret = None THEN [st EXCEPT !.stopped = TRUE]
          ELSE IF st.idx <= ESCAPE_POINT
          THEN [it |-> r.it, idx |-> st.idx + 1, emitted |-> st.emitted + 1,
                stopped |-> FALSE]
          ELSE [it |-> r.it, idx |-> st.idx, emitted |-> st.emitted + 1,
                stopped |-> TRUE] :
          r \in {MandelIterNext(st.it)} })

\* The loop is evaluated in blocks of PullBlock pulls, which keeps the
\* evaluation shallow; the result is that of pulling until stopped.
PullBlock == 4 * 4

RECURSIVE Pulls(_, _)
Pulls(st, n) ==
    IF n = 0 \/ st.stopped THEN st ELSE Pulls(TakeWhilePull(st), n - 1)

RECURSIVE PullAll(_)
PullAll(st) == IF st.stopped THEN st ELSE PullAll(Pulls(st, PullBlock))

\* iter.enumerate().take_while(|(idx, _)| *idx <= ESCAPE_POINT).count():
\* count() drains the take_while and counts the elements that passed.
TakeWhileCount(it) ==
    The({ [count |-> st.idx, emitted |-> st.emitted] :
          st \in {PullAll([it |-> it, idx |-> 0, emitted |-> 0, stopped |-> FALSE])} })

\* let pixel = Point::new((x, y)); let iter = MandelIter::new(pixel.into());
\* let iterations = iter.enumerate().take_while(..).count();
PixelIterations(pixel) ==
    TakeWhileCount(MandelIterNew(PointToMandelPoint(pixel)))

\* MandelPlane::map_color
map_color(iterations) == COLOR_MAP[(iterations % 16) + 1]

\* The per-pixel work is a pure function of the pixel: its result for
\* every pixel of the frame, and the result for one pixel.
IterationsTable == {<<pixel, PixelIterations(pixel)>> : pixel \in Pixels}

IterationsOf(pixel) == (CHOOSE t \in IterationsTable : t[1] = pixel)[2]

\* row.par_chunks_mut(4).enumerate(): chunk x of a row, as the (1-based)
\* place of its first byte and its length.
PixelChunk(x) == [lo |-> x * 4 + 1, len |-> 4]

\* Rows chunked by pixels instead of bytes.
RowChunk_short(y) == [lo |-> y * W + 1, len |-> W * 4]

\* rgba.par_chunks_mut(W * 4).enumerate(): chunk y of the buffer.
RowChunk(y) == [lo |-> y * (W * 4) + 1, len |-> W * 4]

\* chunk.iter_mut().zip(vals).for_each(|(ch, v)| *ch = v)
ZipWrite(buf, chunk, vals) ==
    [i \in DOMAIN buf |->
        IF i >= chunk.lo /\ i < chunk.lo + Min(chunk.len, Len(vals))
        THEN vals[i - chunk.lo + 1]
        ELSE buf[i]]

\* The bytes of chunk.
ChunkBytes(chunk) == chunk.lo .. (chunk.lo + chunk.len - 1)

\* vec![0; n]
Zeros(n) == [i \in 1 .. n |-> 0]

---------------------------------------------------------------------------
(* State.                                                                  *)

VARIABLES
    overflow_checks,  \* the build checks integer overflow (debug) or not
    pc,               \* where the event loop is: "update", "draw", inside
                      \* draw(), "return", "panic"
    cursor,           \* MandelPlane.cursor
    rgba,             \* draw(): the pixel buffer
    rowState,         \* the row worker of each y: "idle", "running", "done"
    row,              \* the local row buffer of each running row worker
    iterations,       \* the count each pixel worker computed, NotYet before
    writes,           \* <<worker, buffer, byte>> for every byte written
    screen,           \* draw(): the Image made of rgba, None before
    inverted_cursor,  \* draw(): inverted_cursor
    mapped_cursor,    \* draw(): mapped_cursor
    iter,             \* draw(): the tracer's MandelIter, None before
    idx,              \* draw(): the index enumerate() gives the next value
    orbit,            \* the values the tracer's iterator has emitted
    points,           \* draw(): points
    presented,        \* what this call of draw() gave graphics::present
    h_iter,           \* iterator harness: a MandelIter
    h_out,            \* iterator harness: what each call of next() returned
    fn_op,            \* function harness: the function applied
    fn_in,            \* function harness: its arguments
    fn_out            \* function harness: its result

drawVars == <<rgba, rowState, row, iterations, writes, screen, inverted_cursor,
              mapped_cursor, iter, idx, orbit, points, presented>>

frameVars == <<overflow_checks, pc, cursor, drawVars>>

iterVars == <<h_iter, h_out>>

fnVars == <<fn_op, fn_in, fn_out>>

vars == <<frameVars, iterVars, fnVars>>

NotYet == [count |-> 0 - 1, emitted |-> 0 - 1]

Rows == 0 .. H - 1

\* The positions mouse::position reports for a pointer inside the window.
MousePositions == (0 .. W - 1) \X (0 .. H - 1)

\* The locals of draw() before it runs.
NoFrame ==
    /\ rgba = <<>>
    /\ rowState = [y \in Rows |-> "idle"]
    /\ row = [y \in Rows |-> <<>>]
    /\ iterations = [p \in Pixels |-> NotYet]
    /\ writes = {}
    /\ screen = None
    /\ inverted_cursor = None
    /\ mapped_cursor = None
    /\ iter = None
    /\ idx = 0
    /\ orbit = <<>>
    /\ points = <<>>
    /\ presented = None

IdleIter == h_iter = None /\ h_out = <<>>

IdleFn == fn_op = "none" /\ fn_in = <<>> /\ fn_out = <<>>

---------------------------------------------------------------------------
(* main.rs: the event loop calls update() and then draw(), again and      *)
(* again.                                                                  *)

\* MandelPlane::new, and the build the program was compiled as.
Init ==
    /\ overflow_checks \in BOOLEAN
    /\ pc = "update"
    /\ cursor = CURSOR_ZERO
    /\ NoFrame
    /\ IdleIter
    /\ IdleFn

\* MandelPlane::update: the cursor takes the pointer's position.
Update ==
    /\ pc = "update"
    /\ \E position \in MousePositions : cursor' = position
    /\ pc' = "draw"
    /\ UNCHANGED <<overflow_checks, drawVars, iterVars, fnVars>>

\* draw(): graphics::clear, then let mut rgba = vec![0; H * W * 4]; the
\* rasterizer's row workers are ready to run.
DrawBegin ==
    /\ pc = "draw"
    /\ rgba' = Zeros(H * W * 4)
    /\ pc' = "raster"
    /\ UNCHANGED <<overflow_checks, cursor, rowState, row, iterations, writes,
                   screen, inverted_cursor, mapped_cursor, iter, idx, orbit,
                   points, presented, iterVars, fnVars>>

\* The worker of row y starts: let mut row = [0; W * 4].
RowStart(y) ==
    /\ pc = "raster"
    /\ rowState[y] = "idle"
    /\ rowState' = [rowState EXCEPT ![y] = "running"]
    /\ row' = [row EXCEPT ![y] = Zeros(W * 4)]
    /\ UNCHANGED <<overflow_checks, pc, cursor, rgba, iterations, writes,
                   screen, inverted_cursor, mapped_cursor, iter, idx, orbit,
                   points, presented, iterVars, fnVars>>

\* The worker of pixel (x, y): the closure of row.par_chunks_mut(4), which
\* counts the pixel's iterations and writes its colour into its chunk.
PixelWorker(x, y) ==
    /\ pc = "raster"
    /\ rowState[y] = "running"
    /\ iterations[<<x, y>>] = NotYet
    /\ \E counted \in {IterationsOf(<<x, y>>)} :
        \E colored_pixel \in {map_color(counted.count)} :
           /\ iterations' = [iterations EXCEPT ![<<x, y>>] = counted]
           /\ row' = [row EXCEPT ![y] = ZipWrite(@, PixelChunk(x), colored_pixel)]
           /\ writes' = writes \cup
                  {<< <<"pixel", x, y>>, <<"row", y>>, i >> :
                      i \in ChunkBytes(PixelChunk(x))}
    /\ UNCHANGED <<overflow_checks, pc, cursor, rgba, rowState, screen,
                   inverted_cursor, mapped_cursor, iter, idx, orbit, points,
                   presented, iterVars, fnVars>>

\* The worker of row y, once the pixel workers of its row have all joined:
\* chunks_row.iter_mut().zip(row).for_each(|(ch, p)| *ch = p); its row
\* buffer is dropped.
RowCopy(y) ==
    /\ pc = "raster"
    /\ rowState[y] = "running"
    /\ \A x \in 0 .. W - 1 : iterations[<<x, y>>] # NotYet
    /\ rgba' = ZipWrite(rgba, RowChunk(y), row[y])
    /\ writes' = writes \cup
           {<< <<"row", y>>, <<"rgba">>, i >> : i \in ChunkBytes(RowChunk(y))}
    /\ rowState' = [rowState EXCEPT ![y] = "done"]
    /\ row' = [row EXCEPT ![y] = <<>>]
    /\ UNCHANGED <<overflow_checks, pc, cursor, iterations, screen,
                   inverted_cursor, mapped_cursor, iter, idx, orbit, points,
                   presented, iterVars, fnVars>>

\* The row workers have all joined: graphics::Image::from_rgba8(.., &rgba),
\* then the cursor is inverted and mapped to the plane:
\* Point::new((cursor.0, H - cursor.1)) and inverted_cursor.into().
MapCursor ==
    /\ pc = "raster"
    /\ \A y \in Rows : rowState[y] = "done"
    /\ screen' = Some(rgba)
    /\ LET inv_y == UsizeSub(H, cursor[2], overflow_checks)
       IN  IF inv_y.ok
           THEN /\ inverted_cursor' = Some(<<cursor[1], inv_y.v>>)
                /\ mapped_cursor' = Some(PointToMandelPoint(<<cursor[1], inv_y.v>>))
                /\ pc' = "guard"
           ELSE /\ pc' = "panic"
                /\ UNCHANGED <<inverted_cursor, mapped_cursor>>
    /\ UNCHANGED <<overflow_checks, cursor, rgba, rowState, row, iterations,
                   writes, iter, idx, orbit, points, presented, iterVars, fnVars>>

\* if mapped_cursor.is_distance_less_than(MANDELPOINT_ZERO, CUSTOM_EPSILON)
\*    || !mapped_cursor.is_distance_less_than(MANDELPOINT_ZERO, 2.0)
NotDrawable(mapped) ==
    \/ is_distance_less_than_f32(mapped, MANDELPOINT_ZERO, CUSTOM_EPSILON)
    \/ ~is_distance_less_than_f32(mapped, MANDELPOINT_ZERO, F(2))

\* The check that the Mesh is drawable: return Ok(()) when it is not,
\* else let iter = MandelIter::new(mapped_cursor) and
\* let mut points = vec![Point2::new(cursor.0 as f32, cursor.1 as f32)].
Guard ==
    /\ pc = "guard"
    /\ IF NotDrawable(mapped_cursor[1])
       THEN /\ pc' = "return"
            /\ UNCHANGED <<iter, points>>
       ELSE /\ pc' = "loop"
            /\ iter' = Some(MandelIterNew(mapped_cursor[1]))
            /\ points' = << <<UsizeAsF32(cursor[1]), UsizeAsF32(cursor[2])>> >>
    /\ UNCHANGED <<overflow_checks, cursor, rgba, rowState, row, iterations,
                   writes, screen, inverted_cursor, mapped_cursor, idx, orbit,
                   presented, iterVars, fnVars>>

\* One turn of for (idx, next_mapped) in iter.enumerate(): the loop ends
\* at None and at idx == ESCAPE_POINT; otherwise the value is mapped back
\* to the screen, *y = H - *y, and the point is pushed.
TraceStep ==
    /\ pc = "loop"
    /\ \E r \in {MandelIterNext(iter[1])} :
           /\ iter' = Some(r.it)
           /\ IF r.ret = None
              THEN /\ pc' = "line"
                   /\ UNCHANGED <<idx, orbit, points>>
              ELSE /\ orbit' = Append(orbit, r.ret[1])
                   /\ IF idx = ESCAPE_POINT
                      THEN /\ pc' = "line"
                           /\ UNCHANGED <<idx, points>>
                      ELSE \E next \in {MandelPointToPoint(r.ret[1])} :
                           \E y \in {UsizeSub(H, next[2], overflow_checks)} :
                               IF y.ok
                               THEN /\ points' = Append(points,
                                            <<UsizeAsF32(next[1]), UsizeAsF32(y.v)>>)
                                    /\ idx' = idx + 1
                                    /\ pc' = "loop"
                               ELSE /\ pc' = "panic"
                                    /\ UNCHANGED <<idx, points>>
    /\ UNCHANGED <<overflow_checks, cursor, rgba, rowState, row, iterations,
                   writes, screen, inverted_cursor, mapped_cursor, presented,
                   iterVars, fnVars>>

\* graphics::Mesh::new_line(ctx, &points, 1.0, RED), graphics::draw of the
\* screen and of the line, graphics::present.
DrawLine ==
    /\ pc = "line"
    /\ presented' = Some([image |-> screen[1], line |-> points])
    /\ pc' = "return"
    /\ UNCHANGED <<overflow_checks, cursor, rgba, rowState, row, iterations,
                   writes, screen, inverted_cursor, mapped_cursor, iter, idx,
                   orbit, points, iterVars, fnVars>>

\* draw() returns Ok(()): its locals are dropped and the event loop goes on.
Return ==
    /\ pc = "return"
    /\ pc' = "update"
    /\ rgba' = <<>>
    /\ rowState' = [y \in Rows |-> "idle"]
    /\ row' = [y \in Rows |-> <<>>]
    /\ iterations' = [p \in Pixels |-> NotYet]
    /\ writes' = {}
    /\ screen' = None
    /\ inverted_cursor' = None
    /\ mapped_cursor' = None
    /\ iter' = None
    /\ idx' = 0
    /\ orbit' = <<>>
    /\ points' = <<>>
    /\ presented' = None
    /\ UNCHANGED <<overflow_checks, cursor, iterVars, fnVars>>

Next ==
    \/ Update
    \/ DrawBegin
    \/ \E y \in Rows : RowStart(y)
    \/ \E x \in 0 .. W - 1, y \in Rows : PixelWorker(x, y)
    \/ \E y \in Rows : RowCopy(y)
    \/ MapCursor
    \/ Guard
    \/ TraceStep
    \/ DrawLine
    \/ Return

Spec == Init /\ [][Next]_vars

---------------------------------------------------------------------------
(* MandelIter on its own: an iterator made by MandelIter::new(c), for c    *)
(* among plane coordinates that are multiples of 2^-13, and up to          *)
(* MaxCalls calls of next() on it.                                         *)

\* 2^-13
Tiny == Fin(0, Two23, 0 - 36)

\* 1/2
Half == Fin(0, Two23, 0 - 24)

IterCoords == {F(0 - 2), F(0 - 1), F(0), Half, F(1), F(2), F(3), Tiny, FNeg(Tiny)}

IterInputs == IterCoords \X IterCoords

IterInit ==
    /\ overflow_checks = FALSE
    /\ pc = "iterator"
    /\ cursor = CURSOR_ZERO
    /\ NoFrame
    /\ IdleFn
    /\ \E mandel_c \in IterInputs : h_iter = Some(MandelIterNew(mandel_c))
    /\ h_out = <<>>

\* iter.next()
IterNext ==
    /\ pc = "iterator"
    /\ Len(h_out) < MaxCalls
    /\ \E r \in {MandelIterNext(h_iter[1])} :
           /\ h_iter' = Some(r.it)
           /\ h_out' = Append(h_out, r.ret)
    /\ UNCHANGED <<frameVars, fnVars>>

SpecIter == IterInit /\ [][IterNext]_vars

---------------------------------------------------------------------------
(* The conversions and is_distance_less_than on their own, applied to      *)
(* arguments drawn from small sets.                                        *)

\* Coordinates of the Cursor and Point arguments.
UsizeCoords == {0, 4, 9}

\* Coordinates of the MandelPoint arguments: multiples of 1/2.
PlaneCoords == {F(0 - 2), F(0), Half, F(1)}

Distances == {F(1), F(2), F(5), F(13), CUSTOM_EPSILON}

FnInit ==
    /\ overflow_checks \in BOOLEAN
    /\ pc = "function"
    /\ cursor = CURSOR_ZERO
    /\ NoFrame
    /\ IdleIter
    /\ IdleFn

\* Point::from(MandelPoint::from(point))
FnRoundTrip ==
    \E point \in Pixels :
        /\ fn_op' = "round_trip"
        /\ fn_in' = <<point>>
        /\ fn_out' = <<MandelPointToPoint(PointToMandelPoint(point))>>

\* self.is_distance_less_than(other, distance) for Cursor and Point
FnDistanceUsize ==
    \E self \in UsizeCoords \X UsizeCoords, other \in UsizeCoords \X UsizeCoords,
       distance \in Distances :
        /\ fn_op' = "distance_usize"
        /\ fn_in' = <<self, other, distance>>
        /\ fn_out' = <<is_distance_less_than_usize(self, other, distance,
                                                   overflow_checks)>>

\* self.is_distance_less_than(other, distance) for MandelPoint
FnDistanceF32 ==
    \E self \in PlaneCoords \X PlaneCoords, other \in PlaneCoords \X PlaneCoords,
       distance \in Distances :
        /\ fn_op' = "distance_f32"
        /\ fn_in' = <<self, other, distance>>
        /\ fn_out' = <<is_distance_less_than_f32(self, other, distance)>>

FnNext ==
    /\ pc = "function"
    /\ fn_op = "none"
    /\ (FnRoundTrip \/ FnDistanceUsize \/ FnDistanceF32)
    /\ UNCHANGED <<frameVars, iterVars>>

SpecFn == FnInit /\ [][FnNext]_vars

---------------------------------------------------------------------------
(* Properties.                                                             *)

\* The plane coordinate c of the iterator harness, and the values among
\* what its calls of next() returned.
HarnessC == <<h_iter[1].c.re, h_iter[1].c.im>>

EmittedCount == Cardinality({i \in 1 .. Len(h_out) : h_out[i] # None})

\* C1: for every pixel of the frame the rasterizer makes the pixel's
\* MandelIter emit no more than ESCAPE_POINT values and counts between 0
\* and ESCAPE_POINT iterations; the pixel of c = (0, 0), which never
\* escapes, is counted as exactly ESCAPE_POINT.
C1_CountWithinEscapePoint ==
    \A pixel \in Pixels :
        iterations[pixel] # NotYet =>
            /\ iterations[pixel].emitted <= ESCAPE_POINT
            /\ 0 <= iterations[pixel].count
            /\ iterations[pixel].count <= ESCAPE_POINT
            /\ (PointToMandelPoint(pixel) = MANDELPOINT_ZERO
                    => iterations[pixel].count = ESCAPE_POINT)

\* z * z + c written out by components: (re^2 - im^2 + c.re, 2 re im + c.im).
C2_Square(z, c) ==
    << FAdd(FSub(FMul(z[1], z[1]), FMul(z[2], z[2])), c[1]),
       FAdd(FMul(F(2), FMul(z[1], z[2])), c[2]) >>

\* re^2 + im^2 > 4, evaluated in f32 as next() evaluates it.
C2_Outside(z) == FLt(F(4), FAdd(FMul(z[1], z[1]), FMul(z[2], z[2])))

\* What the i-th call of next() has to return, given what the call before
\* it returned (the value curr then holds; 0+0i before the first call).
C2_CallIsStep(i) ==
    \E z \in {IF i = 1 THEN <<F(0), F(0)>> ELSE h_out[i - 1][1]} :
        IF C2_Outside(z) THEN h_out[i] = None
        ELSE \E w \in {C2_Square(z, HarnessC)} :
                /\ h_out[i] = Some(w)
                /\ (i = Len(h_out) => h_iter[1].curr = Complex(w[1], w[2]))

\* C2: MandelIter::new(c) starts with curr = 0+0i; next() returns None
\* when curr.re^2 + curr.im^2 > 4 and otherwise sets curr to curr*curr + c
\* and returns it; so the first value emitted is c, and for c = (1, 1) the
\* iterator emits (1, 1), then (1, 3), then None.
C2_NextIsMandelbrotStep ==
    /\ pc = "iterator" /\ h_out = <<>> => h_iter[1].curr = Complex(F(0), F(0))
    /\ \A i \in 1 .. Len(h_out) :
           (i > 1 /\ h_out[i - 1] = None) \/ C2_CallIsStep(i)
    /\ Len(h_out) >= 1 => h_out[1] = Some(HarnessC)
    /\ (pc = "iterator" /\ HarnessC = <<F(1), F(1)>>) =>
           /\ Len(h_out) >= 1 => h_out[1] = Some(<<F(1), F(1)>>)
           /\ Len(h_out) >= 2 => h_out[2] = Some(<<F(1), F(3)>>)
           /\ Len(h_out) >= 3 => h_out[3] = None

\* The iterator of c = (1, 1) after three calls of next().
C2_Witness ==
    /\ pc = "iterator"
    /\ h_out = <<Some(<<F(1), F(1)>>), Some(<<F(1), F(3)>>), None>>

\* C3: once next() has returned None, every later call returns None and
\* leaves curr and c as they are; and no call changes c.
C3_EscapedIsTerminal ==
    [][ pc = "iterator" =>
          /\ h_iter'[1].c = h_iter[1].c
          /\ (h_out # <<>> /\ h_out[Len(h_out)] = None) =>
                (h_iter' = h_iter /\ h_out'[Len(h_out')] = None) ]_vars

\* An iterator that has returned None twice in a row, after a value.
C3_Witness ==
    /\ Len(h_out) >= 3
    /\ h_out[Len(h_out) - 2] # None
    /\ h_out[Len(h_out) - 1] = None
    /\ h_out[Len(h_out)] = None

\* No byte of a buffer has been written by two workers.
C4_DisjointWrites ==
    \A a \in writes, b \in writes :
        (a[2] = b[2] /\ a[3] = b[3]) => a[1] = b[1]

\* C4: whatever the interleaving of the row workers and the pixel workers,
\* the finished buffer has W*H*4 bytes and holds at (y*W + x)*4 .. +4 the
\* colour map_color(count(x, y)) of pixel (x, y); no two workers write the
\* same byte.
C4_BufferIsDeterministic ==
    /\ C4_DisjointWrites
    /\ screen # None =>
          /\ Len(rgba) = W * H * 4
          /\ screen = Some(rgba)
          /\ \A pixel \in Pixels :
                \E colour \in {map_color(IterationsOf(pixel).count)} :
                    \A k \in 1 .. 4 :
                        rgba[(pixel[2] * W + pixel[1]) * 4 + k] = colour[k]

\* A finished buffer: every row worker has copied its row.
C4_Witness ==
    /\ screen # None
    /\ Len(rgba) = W * H * 4
    /\ Cardinality(writes) = 2 * (W * H * 4)

\* |a - b| of two usize values.
AbsDiff(a, b) == IF a >= b THEN a - b ELSE b - a

Scaled(v, scale) ==
    IF v.s = 1 THEN 0 - F32AsUsize(FMul(FNeg(v), F(scale)))
    ELSE F32AsUsize(FMul(v, F(scale)))

\* distance^2 * 10^6 of the distances tried, as an integer.
DistanceSquaredMicro(distance) ==
    IF distance = CUSTOM_EPSILON THEN 65 * 65
    ELSE Scaled(distance, 1) * Scaled(distance, 1) * 1000000

\* The Euclidean distance of two integer pairs, both in units of 1/unit,
\* is less than distance.
EuclideanLess(a, b, unit, distance) ==
    ((a[1] - b[1]) * (a[1] - b[1]) + (a[2] - b[2]) * (a[2] - b[2])) * 1000000
        < unit * unit * DistanceSquaredMicro(distance)

\* C6: is_distance_less_than(self, other, d) returns true exactly when
\* the Euclidean distance of self and other is less than d, for Cursor
\* and Point (usize) as for MandelPoint (f32), in either order of the two
\* entities, and does not fail when a coordinate of self is smaller than
\* the coordinate of other.
C6_DistanceIsEuclidean ==
    /\ fn_op = "distance_usize" =>
          /\ fn_out[1].ok
          /\ fn_out[1].v = EuclideanLess(fn_in[1], fn_in[2], 1, fn_in[3])
    /\ fn_op = "distance_f32" =>
          fn_out[1] = EuclideanLess(
                          <<Scaled(fn_in[1][1], 2), Scaled(fn_in[1][2], 2)>>,
                          <<Scaled(fn_in[2][1], 2), Scaled(fn_in[2][2], 2)>>,
                          2, fn_in[3])

\* The plane point of the inverted cursor p is nearer to the origin than
\* CUSTOM_EPSILON or at least 2.0 away from it, in exact arithmetic:
\* |c|^2 = n / d for c = (3x/W - 2, 2y/H - 1).
C7_Undrawable(p) ==
    \E n \in {((3 * p[1] - 2 * W) * H) * ((3 * p[1] - 2 * W) * H)
                + ((2 * p[2] - H) * W) * ((2 * p[2] - H) * W)} :
        \E d \in {(W * H) * (W * H)} :
            \/ n * 1000000 < 65 * 65 * d
            \/ n >= 4 * d

\* C7: when the inverted cursor maps to a plane point nearer to the origin
\* than CUSTOM_EPSILON, or 2.0 or more away from it, draw() builds no
\* trace at all: no MandelIter is stepped and no line is made; for every
\* other mapped point the trace is built, from the cursor to the line.
C7_GuardDecidesTrace ==
    (inverted_cursor # None /\ pc # "guard") =>
        IF C7_Undrawable(inverted_cursor[1])
        THEN /\ pc = "return"
             /\ iter = None /\ orbit = <<>> /\ points = <<>>
             /\ presented = None
        ELSE /\ pc \in {"loop", "line", "return"}
             /\ iter # None
             /\ points # <<>>
             /\ pc = "return" =>
                   (presented # None /\ presented[1].line = points)

\* C8: a built trace starts with the cursor as it was (not inverted),
\* followed by the orbit points in the order next() returned them, each
\* mapped to the screen with y replaced by H - y; it holds at most
\* ESCAPE_POINT orbit points, and fewer exactly when next() returned None
\* before that.
C8_TraceIsOrbitOnScreen ==
    pc = "line" =>
        /\ points[1] = <<UsizeAsF32(cursor[1]), UsizeAsF32(cursor[2])>>
        /\ Len(points) - 1 <= ESCAPE_POINT
        /\ IF Len(orbit) <= ESCAPE_POINT
           THEN Len(points) - 1 = Len(orbit) /\ Escaped(iter[1])
           ELSE Len(points) - 1 = ESCAPE_POINT
        /\ \A i \in 1 .. Len(points) - 1 :
               \E next \in {MandelPointToPoint(orbit[i])} :
                   /\ next[2] <= H
                   /\ points[i + 1] =
                          <<UsizeAsF32(next[1]), UsizeAsF32(H - next[2])>>

\* c.re^2 + c.im^2 > 4 in exact arithmetic, c in units of 2^-13.
C9_OutsideExact(c) ==
    Scaled(c[1], 8192) * Scaled(c[1], 8192) + Scaled(c[2], 8192) * Scaled(c[2], 8192)
        > 4 * 8192 * 8192

\* C9 as the specification states it: for every c with |c| > 2.0
\* (c.re^2 + c.im^2 > 4), MandelIter::new(c) emits at most one value
\* before next() returns None.
C9_OutsideEmitsOnce_Exact ==
    (pc = "iterator" /\ C9_OutsideExact(HarnessC)) => EmittedCount <= 1

\* C9: for every c whose sum c.re*c.re + c.im*c.im, computed in f32 as
\* next() computes it, is greater than 4.0, MandelIter::new(c) emits at
\* most one value before next() returns None.
C9_OutsideEmitsOnce ==
    (pc = "iterator" /\ C2_Outside(HarnessC)) => EmittedCount <= 1

\* The iterator of c = (3, 0) after it emitted c and returned None.
C9_Witness ==
    /\ pc = "iterator"
    /\ HarnessC = <<F(3), F(0)>>
    /\ Len(h_out) >= 2
    /\ h_out[1] = Some(<<F(3), F(0)>>)
    /\ h_out[2] = None

\* C10: in every call of draw() the buffer the rasterizer filled is drawn
\* and presented, in the frames where a trace is built as in the frames
\* where the guard skips the trace.
C10_BufferPresentedEveryFrame ==
    pc = "return" =>
        /\ presented # None
        /\ Len(rgba) = W * H * 4
        /\ presented[1].image = rgba

\* C11: no vertical inversion of draw() underflows: the cursor has
\* y <= H when it is inverted, and every orbit point that the tracer maps
\* back to the screen, for a cursor that passed the guard, has a screen
\* y <= H, so that H - y is computed without a panic and without wrapping.
C11_InversionInRange ==
    /\ cursor[2] <= H
    /\ pc # "panic"
    /\ \A i \in 1 .. Len(orbit) :
           i <= ESCAPE_POINT => MandelPointToPoint(orbit[i])[2] <= H

=============================================================================
